---------------------------- MODULE Spec2Model ----------------------------
(***************************************************************************)
(* Model of backend/scripts/video_silence_filter.py (VideoSilenceFilter):  *)
(* the silence detector, the keep-interval planner, the render strategy    *)
(* selection of process_video and the two concatenation paths.             *)
(*                                                                         *)
(* Time is measured in ticks of 1/SampleRate seconds, so that a timestamp  *)
(* i / sample_rate of the code is the integer i, 0.1 s is SampleRate/10    *)
(* ticks and 1.0 s is SampleRate ticks.  Floating-point rounding is not    *)
(* modelled.                                                               *)
(***************************************************************************)
EXTENDS Integers, Sequences, FiniteSets, TLC

VARIABLES
    pc,                 \* position of the call being modelled
    rms_values,         \* windowed loudness profile (dB), one entry per window
    audio_len,          \* len(audio_data), in samples
    has_scipy,          \* HAS_SCIPY
    config,             \* silence_threshold, min_silence_duration, before_padding, after_padding
    duration_known,     \* the probe's output holds a "Duration:" line
    total_duration,     \* the duration the probe reports, in ticks
    is_silence,         \* smoothed silence mask
    silence_segments,   \* detect_silence_segments' result
    keep_segments,      \* calculate_keep_segments' result
    plan,               \* the render plan process_video selected
    encoder_calls,      \* encoder invocations made so far, in order
    primary,            \* outcome of the filter-graph concatenation
    fb_calls,           \* number of times _concat_segments_fallback was entered
    fb_caller,          \* where the running fallback was called from: "try" or "except"
    fb_index,           \* index of the next segment the fallback extracts
    fb_pending,         \* the running fallback's pending return value
    fb_first,           \* what the first fallback attempt computed
    temp_dir,           \* the running fallback's temp_dir (0: none)
    temp_dirs,          \* temporary directories that exist
    rm_failed,          \* temporary directories whose shutil.rmtree raised
    result,             \* process_video's return value
    extraction,         \* how extract_audio_data ended in process_video
    audio_data,         \* decoded samples, as amplitudes 0 (digital silence) or 1 (full scale)
    profile,            \* the windows of the volume profile: start and sum of squares
    volume,             \* sample_audio_volume's return value
    video_files,        \* the video files process_batch discovered
    task_pc,            \* position of each submitted process_single_video call
    task_result,        \* the result dictionary of each call
    lock,               \* holder of self.lock (0: free)
    results,            \* self.results
    batch_pc,           \* position of process_batch
    max_workers,        \* self.max_workers
    temp_wav            \* the temporary WAV file of extract_audio_data

vars == <<pc, rms_values, audio_len, has_scipy, config, duration_known,
          total_duration, is_silence, silence_segments, keep_segments, plan,
          encoder_calls, primary, fb_calls, fb_caller, fb_index, fb_pending,
          fb_first, temp_dir, temp_dirs, rm_failed, result, extraction,
          audio_data, profile, volume, video_files, task_pc, task_result, lock,
          results, batch_pc, max_workers, temp_wav>>

---------------------------------------------------------------------------
(* Bounds of the model *)

\* longest volume profile the detector is checked on
MaxProfileLen == 7
\* most video files a batch is given
MaxVideos == 2
\* largest thread pool
MaxWorkers == 2
\* longest decoded buffer the profile builder and the sampler are checked on
MaxAudio == 6
\* samples per second of the decoded buffer (22050 in the code, scaled down)
SampleRate == 20
\* longest smoothed mask the scan is checked on
MaxMaskLen == 6
\* largest time of a silence interval handed to the planner
MaxTime == 5
\* largest padding handed to the planner
MaxPad == 2
\* longest silence list handed to the planner
MaxSil == 3
\* lengths, in windows, of the runs a profile handed to process_video is made of
GapRun == 7
ShortRun == 5
LongRun == 22
\* a padding longer than one second
BigPad == 30
\* by how much the probed duration can fall short of the audio track
DurationGap == 6

Max(a, b) == IF a >= b THEN a ELSE b
Abs(a) == IF a >= 0 THEN a ELSE -a

\* all boolean sequences of length n
Masks(n) == [1..n -> BOOLEAN]

---------------------------------------------------------------------------
(* detect_silence_segments *)

\* window_size = int(sample_rate * 0.1)
WindowSize == SampleRate \div 10
\* hop_size = int(sample_rate * 0.05)
HopSize == SampleRate \div 20

\* len(range(0, len(audio_data) - window_size, hop_size))
NumWindows(n) ==
    IF n - WindowSize <= 0 THEN 0
    ELSE (n - WindowSize + HopSize - 1) \div HopSize

\* time_stamps[k] = i / sample_rate for the k-th window start i (k from 1)
TimeStamp(k) == (k - 1) * HopSize

\* is_silence = rms_values < silence_threshold
ThresholdMask(rms, threshold) == [k \in 1..Len(rms) |-> rms[k] < threshold]

\* the value of a mask outside its range is border_value = 0
At(m, k) == IF k \in 1..Len(m) THEN m[k] ELSE FALSE

\* one pass of scipy.ndimage.binary_erosion, default structure, border_value 0
Erode(m) == [k \in 1..Len(m) |-> At(m, k - 1) /\ m[k] /\ At(m, k + 1)]
\* one pass of scipy.ndimage.binary_dilation, default structure, border_value 0
Dilate(m) == [k \in 1..Len(m) |-> At(m, k - 1) \/ m[k] \/ At(m, k + 1)]

RECURSIVE ErodeN(_, _)
ErodeN(m, n) == IF n = 0 THEN m ELSE ErodeN(Erode(m), n - 1)
RECURSIVE DilateN(_, _)
DilateN(m, n) == IF n = 0 THEN m ELSE DilateN(Dilate(m), n - 1)

\* ndimage.binary_opening(is_silence, iterations=n)
BinaryOpening(m, n) == DilateN(ErodeN(m, n), n)
\* ndimage.binary_closing(is_silence, iterations=n)
BinaryClosing(m, n) == ErodeN(DilateN(m, n), n)

\* number of silent samples of m in lo..hi
RECURSIVE CountSilent(_, _, _)
CountSilent(m, lo, hi) ==
    IF lo > hi THEN 0
    ELSE (IF m[lo] THEN 1 ELSE 0) + CountSilent(m, lo + 1, hi)

KernelSize == 5

\* number of silent samples of m in lo..hi that exist
CountSilentClipped(m, lo, hi) ==
    CountSilent(m, Max(1, lo), IF hi < Len(m) THEN hi ELSE Len(m))

\* a majority vote that also votes at the first and last samples, over the
\* part of the window that exists
MajorityVote_Clipped(m) ==
    LET half == KernelSize \div 2
    IN  [k \in 1..Len(m) |->
            CountSilentClipped(m, k - half, k + half) > KernelSize \div 2]

\* the smoothing used without scipy: is_silence_smooth starts all False and is
\* set for i in range(kernel_size//2, len - kernel_size//2) only
MajorityVote(m) ==
    LET half == KernelSize \div 2
    IN  [k \in 1..Len(m) |->
            IF k - 1 >= half /\ k - 1 < Len(m) - half
            THEN CountSilent(m, k - half, k + half) > KernelSize \div 2
            ELSE FALSE]

Smooth(m, scipy) ==
    IF scipy THEN BinaryClosing(BinaryOpening(m, 2), 3) ELSE MajorityVote(m)

\* a scan that emits every candidate, whatever its duration
LongEnough_Always(duration, min_silence_duration) == TRUE

\* whether a candidate of the given duration is emitted
LongEnough(duration, min_silence_duration) == duration >= min_silence_duration

\* the loop over enumerate(is_silence): in_silence, silence_start and the
\* segments emitted so far
RECURSIVE ScanFrom(_, _, _, _, _, _)
ScanFrom(m, k, in_silence, silence_start, segs, min_dur) ==
    IF k > Len(m)
    THEN [in_silence |-> in_silence, silence_start |-> silence_start, segs |-> segs]
    ELSE LET time_pos == TimeStamp(k)
         IN  IF m[k] /\ ~in_silence
             THEN ScanFrom(m, k + 1, TRUE, time_pos, segs, min_dur)
             ELSE IF ~m[k] /\ in_silence
             THEN ScanFrom(m, k + 1, FALSE, silence_start,
                           IF LongEnough(time_pos - silence_start, min_dur)
                           THEN Append(segs, <<silence_start, time_pos>>)
                           ELSE segs,
                           min_dur)
             ELSE ScanFrom(m, k + 1, in_silence, silence_start, segs, min_dur)

\* the scan and the handling of the last silence (final_time = len / rate)
FindSilenceSegments(m, n, min_dur) ==
    LET r == ScanFrom(m, 1, FALSE, 0, <<>>, min_dur)
        final_time == n
    IN  IF r.in_silence /\ LongEnough(final_time - r.silence_start, min_dur)
        THEN Append(r.segs, <<r.silence_start, final_time>>)
        ELSE r.segs

---------------------------------------------------------------------------
(* calculate_keep_segments *)

\* the loop over silence_segments: current_pos and the candidates so far
RECURSIVE KeepLoop(_, _, _, _, _, _)
KeepLoop(sil, i, current_pos, keep, before_padding, after_padding) ==
    IF i > Len(sil) THEN [current_pos |-> current_pos, keep |-> keep]
    ELSE LET segment_end == Max(0, sil[i][1] + after_padding)
         IN  KeepLoop(sil, i + 1, Max(0, sil[i][2] - before_padding),
                      IF current_pos < segment_end
                      THEN Append(keep, <<current_pos, segment_end>>)
                      ELSE keep,
                      before_padding, after_padding)

\* a merge pass that keeps adjacent candidates apart
StartsNew_Adjacent(last_end, start) == last_end <= start

\* a candidate starts a new interval when it starts after the last one's end
StartsNew(last_end, start) == last_end < start

\* the merge pass over keep_segments
RECURSIVE MergeFrom(_, _, _)
MergeFrom(keep, i, merged) ==
    IF i > Len(keep) THEN merged
    ELSE LET start == keep[i][1]
             end == keep[i][2]
             n == Len(merged)
         IN  IF n = 0 \/ StartsNew(merged[n][2], start)
             THEN MergeFrom(keep, i + 1, Append(merged, <<start, end>>))
             ELSE MergeFrom(keep, i + 1,
                     [merged EXCEPT ![n] = <<merged[n][1], Max(merged[n][2], end)>>])

MergeSegments(keep) == MergeFrom(keep, 1, <<>>)

\* calculate_keep_segments with the two paddings exchanged
CalculateKeepSegments_SwappedPadding(sil, before_padding, after_padding, duration) ==
    IF sil = <<>> THEN << <<0, duration>> >>
    ELSE LET r == KeepLoop(sil, 1, 0, <<>>, after_padding, before_padding)
         IN  MergeSegments(IF r.current_pos < duration
                           THEN Append(r.keep, <<r.current_pos, duration>>)
                           ELSE r.keep)

\* calculate_keep_segments returning its candidates without the merge pass
CalculateKeepSegments_NoMerge(sil, before_padding, after_padding, duration) ==
    IF sil = <<>> THEN << <<0, duration>> >>
    ELSE LET r == KeepLoop(sil, 1, 0, <<>>, before_padding, after_padding)
         IN  IF r.current_pos < duration
             THEN Append(r.keep, <<r.current_pos, duration>>)
             ELSE r.keep

CalculateKeepSegments(sil, before_padding, after_padding, duration) ==
    IF sil = <<>> THEN << <<0, duration>> >>
    ELSE LET r == KeepLoop(sil, 1, 0, <<>>, before_padding, after_padding)
             keep == IF r.current_pos < duration
                     THEN Append(r.keep, <<r.current_pos, duration>>)
                     ELSE r.keep
         IN  MergeSegments(keep)

---------------------------------------------------------------------------
(* Values of the variables a specification does not use *)

NoConfig == [silence_threshold |-> 0, min_silence_duration |-> 0,
             before_padding |-> 0, after_padding |-> 0]
NoPlan == [kind |-> "none", ss |-> 0, t |-> 0, segs |-> <<>>]

IdleRender ==
    /\ plan = NoPlan
    /\ encoder_calls = <<>>
    /\ primary = "none"
    /\ fb_calls = 0
    /\ fb_caller = "none"
    /\ fb_index = 0
    /\ fb_pending = "none"
    /\ fb_first = "none"
    /\ temp_dir = 0
    /\ temp_dirs = {}
    /\ rm_failed = {}
    /\ result = "none"

renderVars == <<plan, encoder_calls, primary, fb_calls, fb_caller, fb_index,
                fb_pending, fb_first, temp_dir, temp_dirs, rm_failed, result>>

\* the variables of the profile builder, the volume sampler and the batch
otherVars == <<audio_data, profile, volume, video_files, task_pc, task_result,
               lock, results, batch_pc, max_workers, temp_wav>>

NoVolume == [sign |-> 0, num |-> 0, den |-> 1]

IdleOther ==
    /\ audio_data = <<>>
    /\ profile = <<>>
    /\ volume = NoVolume
    /\ video_files = <<>>
    /\ task_pc = <<>>
    /\ task_result = <<>>
    /\ lock = 0
    /\ results = <<>>
    /\ batch_pc = "idle"
    /\ max_workers = 2
    /\ temp_wav = "none"

---------------------------------------------------------------------------
(* The scan of detect_silence_segments on every smoothed mask *)

InitScan ==
    /\ pc = "scan"
    /\ audio_len \in 0..(MaxMaskLen * HopSize + WindowSize)
    /\ is_silence \in Masks(NumWindows(audio_len))
    /\ \E d \in 0..3 : config = [NoConfig EXCEPT !.min_silence_duration = d]
    /\ rms_values = <<>>
    /\ has_scipy = FALSE
    /\ duration_known = FALSE
    /\ total_duration = 0
    /\ silence_segments = <<>>
    /\ keep_segments = <<>>
    /\ IdleRender
    /\ extraction = "none"
    /\ IdleOther

ScanMask ==
    /\ pc = "scan"
    /\ silence_segments' =
           FindSilenceSegments(is_silence, audio_len, config.min_silence_duration)
    /\ pc' = "scanned"
    /\ UNCHANGED <<rms_values, audio_len, has_scipy, config, duration_known,
                   total_duration, is_silence, keep_segments, renderVars, extraction, otherVars>>

NextScan == ScanMask

SpecScan == InitScan /\ [][NextScan]_vars

---------------------------------------------------------------------------
(* calculate_keep_segments on every ordered silence list *)

\* lists of at most n intervals with times in 0..MaxTime
RECURSIVE IntervalLists(_)
IntervalLists(n) ==
    IF n = 0 THEN {<<>>}
    ELSE LET shorter == IntervalLists(n - 1)
         IN  shorter \cup
             { Append(sil, <<s, e>>) :
                 sil \in {x \in shorter : Len(x) = n - 1},
                 s \in 0..MaxTime, e \in 0..MaxTime }

SilenceLists == IntervalLists(MaxSil)

\* strictly ordered and non-overlapping, as the detector emits its intervals
Ordered(sil) ==
    /\ \A i \in 1..Len(sil) : sil[i][1] < sil[i][2]
    /\ \A i \in 1..(Len(sil) - 1) : sil[i][2] <= sil[i + 1][1]

InitKeep ==
    /\ pc = "keep"
    /\ silence_segments \in {sil \in SilenceLists : Ordered(sil)}
    /\ \E b \in 0..MaxPad, a \in 0..MaxPad :
          config = [NoConfig EXCEPT !.before_padding = b, !.after_padding = a]
    /\ total_duration \in (-1)..(MaxTime + 1)
    /\ duration_known = TRUE
    /\ rms_values = <<>>
    /\ audio_len = 0
    /\ has_scipy = FALSE
    /\ is_silence = <<>>
    /\ keep_segments = <<>>
    /\ IdleRender
    /\ extraction = "none"
    /\ IdleOther

PlanKeep ==
    /\ pc = "keep"
    /\ keep_segments' = CalculateKeepSegments(silence_segments, config.before_padding,
                                              config.after_padding, total_duration)
    /\ pc' = "planned"
    /\ UNCHANGED <<rms_values, audio_len, has_scipy, config, duration_known,
                   total_duration, is_silence, silence_segments, renderVars, extraction, otherVars>>

NextKeep == PlanKeep

SpecKeep == InitKeep /\ [][NextKeep]_vars

---------------------------------------------------------------------------
(* process_video: render strategy selection *)

\* is_full_video, restricted to the start of the interval
IsFullVideo_StartOnly(start_time, end_time, duration) ==
    Abs(start_time) * 10 < SampleRate

\* is_full_video with the comparison of the end turned around
IsFullVideo_Flipped(start_time, end_time, duration) ==
    /\ Abs(start_time) * 10 < SampleRate
    /\ Abs(end_time - duration) > SampleRate

\* is_full_video = abs(start_time) < 0.1 and abs(end_time - total_duration) < 1.0
IsFullVideo(start_time, end_time, duration) ==
    /\ Abs(start_time) * 10 < SampleRate
    /\ Abs(end_time - duration) < SampleRate

\* a selection that copies the whole file when there is nothing to keep
RenderPlan_EmptyIsCopy(keep, duration) ==
    IF keep = <<>>
    THEN [kind |-> "copy", ss |-> 0, t |-> 0, segs |-> <<>>]
    ELSE [kind |-> "concat", ss |-> 0, t |-> 0, segs |-> keep]

\* the command process_video builds, or the hand-over to _concat_segments
RenderPlan(keep, duration) ==
    IF Len(keep) = 1
    THEN LET start_time == keep[1][1]
             end_time == keep[1][2]
         IN  IF IsFullVideo(start_time, end_time, duration)
             THEN [kind |-> "copy", ss |-> 0, t |-> 0, segs |-> <<>>]
             ELSE [kind |-> "trim", ss |-> start_time, t |-> end_time - start_time,
                   segs |-> <<>>]
    ELSE [kind |-> "concat", ss |-> 0, t |-> 0, segs |-> keep]

\* duration_str = video_info.get('duration', '00:00:00.00'), parsed
ParseDuration == IF duration_known THEN total_duration ELSE 0

\* one invocation of the encoder and how it ended
Call(kind, ss, t, segs, status) ==
    [kind |-> kind, ss |-> ss, t |-> t, segs |-> segs, status |-> status]

\* a run of n windows at the given level
Run(n, db) == [k \in 1..n |-> db]

detectVars == <<rms_values, audio_len, has_scipy, config, duration_known,
                total_duration, otherVars>>
fallbackVars == <<fb_calls, fb_caller, fb_index, fb_pending, fb_first, temp_dir,
                  temp_dirs, rm_failed>>

\* a handler that lets the exception leave process_video
ReturnFalse_Reraise ==
    /\ pc' = "done"
    /\ result' = "raised"

\* the handler of process_video: except Exception -> return False
ReturnFalse ==
    /\ pc' = "done"
    /\ result' = "false"

Init ==
    /\ pc = "start"
    /\ \E a \in {0, GapRun}, b \in {0, ShortRun, LongRun}, c \in {0, GapRun},
          d \in {0, ShortRun}, e \in {0, GapRun} :
          rms_values = Run(a, -10) \o Run(b, -50) \o Run(c, -10)
                           \o Run(d, -50) \o Run(e, -10)
    /\ audio_len \in {n \in 0..(Len(rms_values) * HopSize + WindowSize) :
                         NumWindows(n) = Len(rms_values)}
    /\ has_scipy \in BOOLEAN
    /\ \E m \in {2, 10}, b \in {0, 2}, a \in {0, BigPad} :
          config = [silence_threshold |-> -35, min_silence_duration |-> m,
                    before_padding |-> b, after_padding |-> a]
    /\ duration_known \in BOOLEAN
    /\ total_duration \in IF duration_known
                          THEN {audio_len, Max(0, audio_len - DurationGap)}
                          ELSE {0}
    /\ is_silence = <<>>
    /\ silence_segments = <<>>
    /\ keep_segments = <<>>
    /\ IdleRender
    /\ extraction = "none"
    /\ IdleOther

\* detect_silence_segments as called by process_video; a failed or timed-out
\* extraction raises, and so does rms_values.max() on an empty profile
DetectSilence ==
    /\ pc = "start"
    /\ \E status \in {"ok", "nonzero", "timeout"} :
          /\ extraction' = status
          /\ IF status = "ok" /\ Len(rms_values) > 0
             THEN /\ is_silence' =
                         Smooth(ThresholdMask(rms_values, config.silence_threshold),
                                has_scipy)
                  /\ silence_segments' =
                         FindSilenceSegments(is_silence', audio_len,
                                             config.min_silence_duration)
                  /\ pc' = "keep"
                  /\ UNCHANGED result
             ELSE /\ ReturnFalse
                  /\ UNCHANGED <<is_silence, silence_segments>>
    /\ UNCHANGED <<detectVars, keep_segments, plan, encoder_calls, primary,
                   fallbackVars>>

\* calculate_keep_segments as called by process_video; get_video_info may raise
CalcKeep ==
    /\ pc = "keep"
    /\ \E probe \in {"ok", "raise"} :
          IF probe = "ok"
          THEN /\ keep_segments' =
                      CalculateKeepSegments(silence_segments, config.before_padding,
                                            config.after_padding, ParseDuration)
               /\ pc' = "select"
               /\ UNCHANGED result
          ELSE /\ ReturnFalse
               /\ UNCHANGED keep_segments
    /\ UNCHANGED <<detectVars, extraction, is_silence, silence_segments, plan, encoder_calls,
                   primary, fallbackVars>>

\* the branch on len(keep_segments); the single-segment branch probes again
SelectPlan ==
    /\ pc = "select"
    /\ IF Len(keep_segments) = 1
       THEN \E probe \in {"ok", "raise"} :
               IF probe = "ok"
               THEN /\ plan' = RenderPlan(keep_segments, ParseDuration)
                    /\ pc' = "encode"
                    /\ UNCHANGED result
               ELSE /\ ReturnFalse
                    /\ UNCHANGED plan
       ELSE /\ plan' = RenderPlan(keep_segments, ParseDuration)
            /\ pc' = "primary"
            /\ UNCHANGED result
    /\ UNCHANGED <<detectVars, extraction, is_silence, silence_segments, keep_segments,
                   encoder_calls, primary, fallbackVars>>

\* subprocess.run(cmd, timeout=1800) for the copy or the trim
RunEncoder ==
    /\ pc = "encode"
    /\ \E status \in {"ok", "nonzero", "timeout"} :
          /\ encoder_calls' = Append(encoder_calls,
                                     Call(plan.kind, plan.ss, plan.t, <<>>, status))
          /\ result' = IF status = "ok" THEN "true" ELSE "false"
    /\ pc' = "done"
    /\ UNCHANGED <<detectVars, extraction, is_silence, silence_segments, keep_segments, plan,
                   primary, fallbackVars>>

---------------------------------------------------------------------------
(* _concat_with_filter_complex and _concat_segments_fallback *)

\* a filter-graph concatenation that hands every outcome to the fallback
NeedsFallback_Always(status) == TRUE

\* the fallback is called on a non-zero exit status and from the handler
NeedsFallback(status) == status # "ok"

\* the filter-graph concatenation: "raise" is a timeout or any other fault
PrimaryConcat ==
    /\ pc = "primary"
    /\ \E status \in {"ok", "nonzero", "raise"} :
          /\ encoder_calls' = Append(encoder_calls,
                                     Call("filter_complex", 0, 0, plan.segs, status))
          /\ primary' = status
          /\ IF NeedsFallback(status)
             THEN /\ fb_caller' = IF status = "raise" THEN "except" ELSE "try"
                  /\ pc' = "fallback"
                  /\ UNCHANGED result
             ELSE /\ pc' = "done"
                  /\ result' = "true"
                  /\ UNCHANGED fb_caller
    /\ UNCHANGED <<detectVars, extraction, is_silence, silence_segments, keep_segments, plan,
                   fb_calls, fb_index, fb_pending, fb_first, temp_dir, temp_dirs,
                   rm_failed>>

\* entry of _concat_segments_fallback: tempfile.mkdtemp() is outside the try
FallbackEnter ==
    /\ pc = "fallback"
    /\ fb_calls' = fb_calls + 1
    /\ fb_index' = 1
    /\ fb_pending' = "none"
    /\ \E mkdtemp \in {"ok", "raise"} :
          IF mkdtemp = "ok"
          THEN /\ temp_dir' = fb_calls + 1
               /\ temp_dirs' = temp_dirs \cup {fb_calls + 1}
               /\ pc' = "fb_extract"
          ELSE /\ temp_dir' = 0
               /\ UNCHANGED temp_dirs
               /\ pc' = "fb_raised"
    /\ UNCHANGED <<detectVars, extraction, is_silence, silence_segments, keep_segments, plan,
                   encoder_calls, primary, fb_caller, fb_first, rm_failed, result>>

\* a loop that goes on to the next segment after a failed extraction
FallbackExtract_ContinueOnFailure ==
    /\ pc = "fb_extract"
    /\ fb_index <= Len(plan.segs)
    /\ \E status \in {"ok", "nonzero", "timeout"} :
          /\ encoder_calls' =
                 Append(encoder_calls,
                        Call("segment", plan.segs[fb_index][1],
                             plan.segs[fb_index][2] - plan.segs[fb_index][1],
                             <<fb_index>>, status))
          /\ fb_index' = fb_index + 1
          /\ UNCHANGED <<pc, fb_pending>>
    /\ UNCHANGED <<detectVars, extraction, is_silence, silence_segments, keep_segments, plan,
                   primary, fb_calls, fb_caller, fb_first, temp_dir, temp_dirs,
                   rm_failed, result>>

\* one pass of the loop extracting a segment; a failure raises into the handler
FallbackExtract ==
    /\ pc = "fb_extract"
    /\ fb_index <= Len(plan.segs)
    /\ \E status \in {"ok", "nonzero", "timeout"} :
          /\ encoder_calls' =
                 Append(encoder_calls,
                        Call("segment", plan.segs[fb_index][1],
                             plan.segs[fb_index][2] - plan.segs[fb_index][1],
                             <<fb_index>>, status))
          /\ IF status = "ok"
             THEN /\ fb_index' = fb_index + 1
                  /\ UNCHANGED <<pc, fb_pending>>
             ELSE /\ fb_pending' = "false"
                  /\ pc' = "fb_finally"
                  /\ UNCHANGED fb_index
    /\ UNCHANGED <<detectVars, extraction, is_silence, silence_segments, keep_segments, plan,
                   primary, fb_calls, fb_caller, fb_first, temp_dir, temp_dirs,
                   rm_failed, result>>

\* the list file and the lossless concatenation of the extracted segments;
\* "list_fault" is a fault raised while the list file is written
FallbackConcat ==
    /\ pc = "fb_extract"
    /\ fb_index > Len(plan.segs)
    /\ \E status \in {"ok", "nonzero", "timeout", "list_fault"} :
          /\ encoder_calls' =
                 IF status = "list_fault" THEN encoder_calls
                 ELSE Append(encoder_calls,
                             Call("concat", 0, 0, [k \in 1..Len(plan.segs) |-> k],
                                  status))
          /\ fb_pending' = IF status = "ok" THEN "true" ELSE "false"
    /\ pc' = "fb_finally"
    /\ UNCHANGED <<detectVars, extraction, is_silence, silence_segments, keep_segments, plan,
                   primary, fb_calls, fb_caller, fb_index, fb_first, temp_dir,
                   temp_dirs, rm_failed, result>>

\* a clean-up that runs on the successful path only
AfterCleanup_SuccessOnly(dirs, dir, pending, rmtree) ==
    IF rmtree = "ok" /\ pending = "true" THEN dirs \ {dir} ELSE dirs

\* the directories left by the finally clause: shutil.rmtree(temp_dir)
AfterCleanup(dirs, dir, pending, rmtree) ==
    IF rmtree = "ok" THEN dirs \ {dir} ELSE dirs

\* the finally clause, then the return to the caller's caller when rmtree
\* does not raise
FallbackCleanup ==
    /\ pc = "fb_finally"
    /\ fb_first' = IF fb_calls = 1 THEN fb_pending ELSE fb_first
    /\ \E rmtree \in {"ok", "raise"} :
          /\ temp_dirs' = AfterCleanup(temp_dirs, temp_dir, fb_pending, rmtree)
          /\ IF rmtree = "ok"
             THEN /\ result' = fb_pending
                  /\ pc' = "done"
                  /\ UNCHANGED rm_failed
             ELSE /\ rm_failed' = rm_failed \cup {temp_dir}
                  /\ pc' = "fb_raised"
                  /\ UNCHANGED result
    /\ UNCHANGED <<detectVars, extraction, is_silence, silence_segments, keep_segments, plan,
                   encoder_calls, primary, fb_calls, fb_caller, fb_index, fb_pending,
                   temp_dir>>

\* an exception leaving the fallback: inside the try of
\* _concat_with_filter_complex its handler calls the fallback again, inside
\* that handler it reaches the handler of process_video
FallbackRaised ==
    /\ pc = "fb_raised"
    /\ IF fb_caller = "try"
       THEN /\ fb_caller' = "except"
            /\ pc' = "fallback"
            /\ UNCHANGED result
       ELSE /\ ReturnFalse
            /\ UNCHANGED fb_caller
    /\ UNCHANGED <<detectVars, extraction, is_silence, silence_segments, keep_segments, plan,
                   encoder_calls, primary, fb_calls, fb_index, fb_pending, fb_first,
                   temp_dir, temp_dirs, rm_failed>>

Next ==
    \/ DetectSilence
    \/ CalcKeep
    \/ SelectPlan
    \/ RunEncoder
    \/ PrimaryConcat
    \/ FallbackEnter
    \/ FallbackExtract
    \/ FallbackConcat
    \/ FallbackCleanup
    \/ FallbackRaised

Spec == Init /\ [][Next]_vars

---------------------------------------------------------------------------
(* detect_silence_segments: the sliding-window volume profile *)

\* sequences over S of length at most n
RECURSIVE SeqsUpTo(_, _)
SeqsUpTo(S, n) ==
    IF n = 0 THEN {<<>>}
    ELSE LET shorter == SeqsUpTo(S, n - 1)
         IN  shorter \cup {Append(q, x) : q \in {y \in shorter : Len(y) = n - 1}, x \in S}

\* decoded buffers: every sample is digital silence (0) or full scale (1)
AudioBuffers == SeqsUpTo({0, 1}, MaxAudio)

\* sum(window ** 2) for window = audio[i : i + n] (i from 0)
RECURSIVE SumSquares(_, _, _)
SumSquares(audio, i, n) ==
    IF n = 0 \/ i + 1 > Len(audio) THEN 0
    ELSE audio[i + 1] * audio[i + 1] + SumSquares(audio, i + 1, n - 1)

\* the entries appended by the loop over range(0, len(audio_data) - window_size,
\* hop_size): the window's time stamp and the sum of squares its RMS is taken from
VolumeProfile(audio) ==
    [k \in 1..NumWindows(Len(audio)) |->
        [t |-> TimeStamp(k), sumsq |-> SumSquares(audio, TimeStamp(k), WindowSize)]]

InitProfile ==
    /\ pc = "window"
    /\ audio_data \in AudioBuffers
    /\ audio_len = Len(audio_data)
    /\ rms_values = <<>>
    /\ has_scipy = FALSE
    /\ config = NoConfig
    /\ duration_known = TRUE
    /\ total_duration = 0
    /\ is_silence = <<>>
    /\ silence_segments = <<>>
    /\ keep_segments = <<>>
    /\ IdleRender
    /\ extraction = "ok"
    /\ profile = <<>>
    /\ volume = NoVolume
    /\ video_files = <<>>
    /\ task_pc = <<>>
    /\ task_result = <<>>
    /\ lock = 0
    /\ results = <<>>
    /\ batch_pc = "idle"
    /\ max_workers = 2
    /\ temp_wav = "none"

\* the window loop, then rms_values.max(), which raises on an empty profile
BuildProfile ==
    /\ pc = "window"
    /\ profile' = VolumeProfile(audio_data)
    /\ pc' = IF profile' = <<>> THEN "raised" ELSE "profiled"
    /\ UNCHANGED <<rms_values, audio_len, has_scipy, config, duration_known,
                   total_duration, is_silence, silence_segments, keep_segments,
                   renderVars, extraction, audio_data, volume, video_files, task_pc,
                   task_result, lock, results, batch_pc, max_workers, temp_wav>>

NextProfile == BuildProfile

SpecProfile == InitProfile /\ [][NextProfile]_vars

---------------------------------------------------------------------------
(* sample_audio_volume *)

\* A volume is the real number sign * sqrt(num / den); den = 0 stands for nan.

\* the number of samples of audio[i+1..] that are digital silence
RECURSIVE CountZeros(_, _)
CountZeros(audio, i) ==
    IF i >= Len(audio) THEN 0
    ELSE (IF audio[i + 1] = 0 THEN 1 ELSE 0) + CountZeros(audio, i + 1)

\* the mean of the per-sample dB values, without the squares
RmsDb_SignedMean(audio) ==
    [sign |-> IF CountZeros(audio, 0) > 0 THEN -1 ELSE 1,
     num |-> (200 * CountZeros(audio, 0)) * (200 * CountZeros(audio, 0)),
     den |-> Len(audio) * Len(audio)]

\* sqrt(mean(calculate_volume_db(audio) ** 2)): a sample of 0 is clamped to
\* 1e-10, that is -200 dB, and a full-scale sample is 0 dB
RmsDb(audio) ==
    [sign |-> 1, num |-> (200 * 200) * CountZeros(audio, 0), den |-> Len(audio)]

\* the default returned by the handler: -40.0
DefaultVolume == [sign |-> -1, num |-> 40 * 40, den |-> 1]

\* how extract_audio_data can end: the decoder exits 0, exits non-zero, or
\* times out, or the wave module rejects the file, or os.unlink raises in
\* the finally clause (whatever happened before it)
ExtractionOutcomes == {"ok", "nonzero", "timeout", "wave_error", "unlink_error"}

\* a clean-up placed after the read, on the successful path only
AfterUnlink_SuccessOnly(outcome) ==
    IF outcome = "ok" THEN "removed" ELSE "exists"

\* the temporary file after the finally clause: os.unlink(temp_audio_path)
AfterUnlink(outcome) ==
    IF outcome = "unlink_error" THEN "exists" ELSE "removed"

\* a handler that lets subprocess.TimeoutExpired through
Caught_NotTimeout(outcome) == outcome # "timeout"

\* except Exception: every way the extraction fails is an Exception
Caught(outcome) == outcome \in ExtractionOutcomes \ {"ok"}

InitSampler ==
    /\ pc = "sample"
    /\ audio_data \in AudioBuffers
    /\ audio_len = Len(audio_data)
    /\ rms_values = <<>>
    /\ has_scipy = FALSE
    /\ config = NoConfig
    /\ duration_known = TRUE
    /\ total_duration = 0
    /\ is_silence = <<>>
    /\ silence_segments = <<>>
    /\ keep_segments = <<>>
    /\ IdleRender
    /\ extraction = "none"
    /\ profile = <<>>
    /\ volume = NoVolume
    /\ video_files = <<>>
    /\ task_pc = <<>>
    /\ task_result = <<>>
    /\ lock = 0
    /\ results = <<>>
    /\ batch_pc = "idle"
    /\ max_workers = 2
    /\ temp_wav = "none"

SampleVolume ==
    /\ pc = "sample"
    /\ \E outcome \in ExtractionOutcomes :
          /\ extraction' = outcome
          /\ temp_wav' = AfterUnlink(outcome)
          /\ IF outcome = "ok"
             THEN /\ volume' = RmsDb(audio_data)
                  /\ pc' = "sampled"
             ELSE IF Caught(outcome)
                  THEN /\ volume' = DefaultVolume
                       /\ pc' = "sampled"
                  ELSE /\ pc' = "raised"
                       /\ UNCHANGED volume
    /\ UNCHANGED <<rms_values, audio_len, has_scipy, config, duration_known,
                   total_duration, is_silence, silence_segments, keep_segments,
                   renderVars, audio_data, profile, video_files, task_pc,
                   task_result, lock, results, batch_pc, max_workers>>

NextSampler == SampleVolume

SpecSampler == InitSampler /\ [][NextSampler]_vars

---------------------------------------------------------------------------
(* batch_processor.py: process_batch and its process_single_video workers *)

\* the lists find_video_files can return: sorted paths, a path possibly
\* listed twice (once per glob pattern that matches it)
VideoLists ==
    {l \in SeqsUpTo(1..MaxVideos, MaxVideos) :
        \A i \in 1..(Len(l) - 1) : l[i] <= l[i + 1]}

Tasks == 1..Len(video_files)

\* threads of the pool that are executing a call
Busy == {i \in Tasks : task_pc[i] \in {"running", "finished", "locked"}}

\* a call whose result is appended only when process_video returned True
ReachesAppend_SuccessOnly(outcome) == outcome = "true"

\* the append follows the try statement, whose handler is except Exception:
\* it is reached whether process_video returned True, returned False or raised
ReachesAppend(outcome) == outcome \in {"true", "false", "raised"}

\* a lock that every thread may enter at any time
LockFree_Always(l) == TRUE

\* threading.Lock: acquire succeeds only while nobody holds the lock
LockFree(l) == l = 0

InitBatch ==
    /\ pc = "batch"
    /\ video_files \in VideoLists
    /\ max_workers \in 1..MaxWorkers
    /\ temp_wav = "none"
    /\ task_pc = <<>>
    /\ task_result = <<>>
    /\ lock = 0
    /\ results = <<>>
    /\ batch_pc = "idle"
    /\ rms_values = <<>>
    /\ audio_len = 0
    /\ has_scipy = FALSE
    /\ config = NoConfig
    /\ duration_known = TRUE
    /\ total_duration = 0
    /\ is_silence = <<>>
    /\ silence_segments = <<>>
    /\ keep_segments = <<>>
    /\ IdleRender
    /\ extraction = "none"
    /\ audio_data = <<>>
    /\ profile = <<>>
    /\ volume = NoVolume

batchFixed == <<pc, rms_values, audio_len, has_scipy, config, duration_known,
                total_duration, is_silence, silence_segments, keep_segments,
                renderVars, extraction, audio_data, profile, volume, video_files,
                max_workers, temp_wav>>

\* process_batch up to the end of the submit loop; an empty list returns []
SubmitAll ==
    /\ batch_pc = "idle"
    /\ IF video_files = <<>>
       THEN /\ batch_pc' = "returned"
            /\ UNCHANGED <<task_pc, task_result, results>>
       ELSE /\ results' = <<>>
            /\ task_pc' = [i \in Tasks |-> "queued"]
            /\ task_result' = [i \in Tasks |->
                                  [input_file |-> video_files[i], success |-> FALSE,
                                   error |-> ""]]
            /\ batch_pc' = "waiting"
    /\ UNCHANGED <<lock, batchFixed>>

\* a free thread of the pool takes the oldest queued call
StartTask(i) ==
    /\ batch_pc = "waiting"
    /\ task_pc[i] = "queued"
    /\ \A j \in 1..(i - 1) : task_pc[j] # "queued"
    /\ Cardinality(Busy) < max_workers
    /\ task_pc' = [task_pc EXCEPT ![i] = "running"]
    /\ UNCHANGED <<task_result, lock, results, batch_pc, batchFixed>>

\* the try statement of process_single_video: process_video returns True or
\* False, or something in the block raises
RunTask(i) ==
    /\ batch_pc = "waiting"
    /\ task_pc[i] = "running"
    /\ \E outcome \in {"true", "false", "raised"} :
          /\ task_result' =
                [task_result EXCEPT
                    ![i].success = (outcome = "true"),
                    ![i].error = IF outcome = "true" THEN ""
                                 ELSE IF outcome = "false" THEN "failed"
                                 ELSE "exception"]
          /\ task_pc' = [task_pc EXCEPT
                            ![i] = IF ReachesAppend(outcome) THEN "finished" ELSE "done"]
    /\ UNCHANGED <<lock, results, batch_pc, batchFixed>>

\* with self.lock: entered
AcquireLock(i) ==
    /\ batch_pc = "waiting"
    /\ task_pc[i] = "finished"
    /\ LockFree(lock)
    /\ lock' = i
    /\ task_pc' = [task_pc EXCEPT ![i] = "locked"]
    /\ UNCHANGED <<task_result, results, batch_pc, batchFixed>>

\* self.results.append(result), then the lock is released and the call returns
AppendResult(i) ==
    /\ batch_pc = "waiting"
    /\ task_pc[i] = "locked"
    /\ results' = Append(results, task_result[i])
    /\ lock' = 0
    /\ task_pc' = [task_pc EXCEPT ![i] = "done"]
    /\ UNCHANGED <<task_result, batch_pc, batchFixed>>

\* concurrent.futures.wait(futures) returns once every future is done
ReturnResults ==
    /\ batch_pc = "waiting"
    /\ \A i \in Tasks : task_pc[i] = "done"
    /\ batch_pc' = "returned"
    /\ UNCHANGED <<task_pc, task_result, lock, results, batchFixed>>

NextBatch ==
    \/ SubmitAll
    \/ \E i \in Tasks : StartTask(i)
    \/ \E i \in Tasks : RunTask(i)
    \/ \E i \in Tasks : AcquireLock(i)
    \/ \E i \in Tasks : AppendResult(i)
    \/ ReturnResults

SpecBatch == InitBatch /\ [][NextBatch]_vars

---------------------------------------------------------------------------
(* detect_silence_segments on every volume profile over two levels *)

InitDetect ==
    /\ pc = "start"
    /\ rms_values \in SeqsUpTo({-50, -10}, MaxProfileLen)
    /\ audio_len \in {n \in 0..(Len(rms_values) * HopSize + WindowSize) :
                         NumWindows(n) = Len(rms_values)}
    /\ has_scipy \in BOOLEAN
    /\ \E d \in 0..3 :
          config = [silence_threshold |-> -35, min_silence_duration |-> d,
                    before_padding |-> 0, after_padding |-> 0]
    /\ duration_known = TRUE
    /\ total_duration = audio_len
    /\ is_silence = <<>>
    /\ silence_segments = <<>>
    /\ keep_segments = <<>>
    /\ IdleRender
    /\ extraction = "none"
    /\ IdleOther

NextDetect == DetectSilence

SpecDetect == InitDetect /\ [][NextDetect]_vars

---------------------------------------------------------------------------
(* The planner followed by the strategy selection, on every ordered silence *)
(* list of the bounds and on the clip test_filter.py generates              *)

\* 0.1 s in ticks
TenthSecond == SampleRate \div 10

\* 2 s tone, 2 s silence, 2 s tone, 3 s silence, 2 s tone
TestClipSilences ==
    << <<20 * TenthSecond, 40 * TenthSecond>>, <<60 * TenthSecond, 90 * TenthSecond>> >>

TestClipDuration == 110 * TenthSecond

InitPlan ==
    /\ pc = "keep"
    /\ \/ /\ silence_segments \in {sil \in SilenceLists : Ordered(sil)}
          /\ \E b \in 0..MaxPad, a \in 0..MaxPad :
                config = [NoConfig EXCEPT !.before_padding = b, !.after_padding = a]
          /\ total_duration \in 0..(MaxTime + 1)
       \/ /\ silence_segments = TestClipSilences
          /\ \E b \in 0..MaxPad, a \in 0..MaxPad :
                config = [NoConfig EXCEPT !.before_padding = b * TenthSecond,
                                          !.after_padding = a * TenthSecond]
          /\ total_duration = TestClipDuration
    /\ duration_known = TRUE
    /\ rms_values = <<>>
    /\ audio_len = 0
    /\ has_scipy = FALSE
    /\ is_silence = <<>>
    /\ keep_segments = <<>>
    /\ IdleRender
    /\ extraction = "ok"
    /\ IdleOther

NextPlan ==
    \/ CalcKeep
    \/ SelectPlan

SpecPlan == InitPlan /\ [][NextPlan]_vars

---------------------------------------------------------------------------
(* process_video from the planner on, for every ordered silence list *)

NextRender ==
    \/ CalcKeep
    \/ SelectPlan
    \/ RunEncoder
    \/ PrimaryConcat
    \/ FallbackEnter
    \/ FallbackExtract
    \/ FallbackConcat
    \/ FallbackCleanup
    \/ FallbackRaised

SpecRender == InitPlan /\ [][NextRender]_vars

---------------------------------------------------------------------------
(* Properties of the planner, checked under SpecKeep *)

\* C1: the list calculate_keep_segments returns is strictly increasing and
\* pairwise disjoint: each interval's end is strictly less than the next
\* interval's start.
C1_KeepStrictlyOrdered ==
    pc = "planned" =>
        \A i \in 1..(Len(keep_segments) - 1) :
            /\ keep_segments[i][2] < keep_segments[i + 1][1]
            /\ keep_segments[i][1] < keep_segments[i + 1][1]

\* two silences, padding on both sides, and two keep intervals left after the merge
C1_Witness ==
    /\ pc = "planned"
    /\ Len(silence_segments) = 2
    /\ config.before_padding > 0
    /\ config.after_padding > 0
    /\ Len(keep_segments) = 2

\* C2: for a total duration T > 0 every keep interval (start, end) satisfies
\* 0 <= start < end <= T.
C2_KeepWithinDuration ==
    (pc = "planned" /\ total_duration > 0) =>
        \A i \in 1..Len(keep_segments) :
            /\ 0 <= keep_segments[i][1]
            /\ keep_segments[i][1] < keep_segments[i][2]
            /\ keep_segments[i][2] <= total_duration

\* C3: for a total duration T > 0 the keep list is not empty.
C3_KeepNonEmpty ==
    (pc = "planned" /\ total_duration > 0) => keep_segments # <<>>

\* C14: running the merge pass again on the list calculate_keep_segments
\* returned gives the same list.
C14_MergeIdempotent ==
    pc = "planned" => MergeSegments(keep_segments) = keep_segments

\* the merge pass collapsed the candidates around two silences into one interval
C14_Witness ==
    /\ pc = "planned"
    /\ Len(silence_segments) = 2
    /\ config.before_padding > 0
    /\ config.after_padding > 0
    /\ Len(keep_segments) = 1

\* the paddings around silence i meet or cross: s + after_padding >= e - before_padding
GapCollapses(i) ==
    silence_segments[i][1] + config.after_padding
        >= silence_segments[i][2] - config.before_padding

\* C16: for a silence (s, e) of the clip with s + afterPadding >= e -
\* beforePadding, the keep interval ending at s + afterPadding and the one
\* starting at e - beforePadding are merged into one: a single keep interval
\* covers the whole silence.
C16_CollapsedGapIsKept ==
    pc = "planned" =>
        \A i \in 1..Len(silence_segments) :
            (GapCollapses(i) /\ silence_segments[i][2] <= total_duration)
            => \E k \in 1..Len(keep_segments) :
                  /\ keep_segments[k][1] <= silence_segments[i][1]
                  /\ silence_segments[i][2] <= keep_segments[k][2]

\* paddings that exactly meet inside a silence in the middle of the clip
C16_Witness ==
    /\ pc = "planned"
    /\ Len(silence_segments) = 1
    /\ silence_segments[1][1] > 0
    /\ silence_segments[1][2] < total_duration
    /\ silence_segments[1][1] + config.after_padding
           = silence_segments[1][2] - config.before_padding
    /\ keep_segments = << <<0, total_duration>> >>

\* the clip of test_filter.py with before_padding 0.1 s and after_padding 0.2 s
TestClip ==
    /\ silence_segments = TestClipSilences
    /\ config.before_padding = TenthSecond
    /\ config.after_padding = 2 * TenthSecond
    /\ total_duration = TestClipDuration

TestClipKeep ==
    << <<0, 22 * TenthSecond>>,
       <<39 * TenthSecond, 62 * TenthSecond>>,
       <<89 * TenthSecond, 110 * TenthSecond>> >>

\* C15: for silences (2.0, 4.0) and (6.0, 9.0), before_padding 0.1, after_padding
\* 0.2 and a duration of 11.0, calculate_keep_segments returns exactly
\* [0, 2.2], [3.9, 6.2], [8.9, 11.0] and process_video hands them to
\* _concat_segments.
C15_TestClipPlan ==
    TestClip =>
        /\ pc \in {"select", "primary"} => keep_segments = TestClipKeep
        /\ pc = "primary" => (plan.kind = "concat" /\ plan.segs = TestClipKeep)
        /\ pc # "encode"

C15_Witness ==
    /\ TestClip
    /\ pc = "primary"
    /\ plan.kind = "concat"
    /\ Len(plan.segs) = 3

\* Times are compared in half ticks, so that the points strictly between two
\* neighbouring ticks are examined as well.

\* half tick h lies in some keep interval
Covered(h) ==
    \E k \in 1..Len(keep_segments) :
        2 * keep_segments[k][1] <= h /\ h <= 2 * keep_segments[k][2]

\* half tick h lies in [s + after_padding, e - before_padding] for a silence (s, e)
InShrunkSilence(h) ==
    \E i \in 1..Len(silence_segments) :
        /\ 2 * (silence_segments[i][1] + config.after_padding) <= h
        /\ h <= 2 * (silence_segments[i][2] - config.before_padding)

\* half tick h lies in some silence interval
InSilence(h) ==
    \E i \in 1..Len(silence_segments) :
        2 * silence_segments[i][1] <= h /\ h <= 2 * silence_segments[i][2]

SilencesInsideClip ==
    \A i \in 1..Len(silence_segments) :
        0 <= silence_segments[i][1] /\ silence_segments[i][2] <= total_duration

\* C26: only padding-shrunk silence is removed: for ordered silence intervals
\* inside [0, T] and non-negative paddings, every time of [0, T] that no keep
\* interval covers lies in [s + after_padding, e - before_padding] for some
\* silence (s, e); hence every time outside all silences is kept.
C26_OnlyShrunkSilenceRemoved ==
    (pc = "planned" /\ SilencesInsideClip)
    => \A h \in 0..(2 * total_duration) :
          /\ ~Covered(h) => InShrunkSilence(h)
          /\ ~InSilence(h) => Covered(h)

\* a silence in the middle of the clip, cut after both paddings shortened it
C26_Witness ==
    /\ pc = "planned"
    /\ SilencesInsideClip
    /\ Len(silence_segments) = 1
    /\ config.before_padding > 0
    /\ config.after_padding > config.before_padding
    /\ Len(keep_segments) = 2
    /\ \E h \in 0..(2 * total_duration) : ~Covered(h)

---------------------------------------------------------------------------
(* Properties of process_video, checked under Spec *)

PrimaryFailed == primary \in {"nonzero", "raise"}
InsideFallback == pc \in {"fb_extract", "fb_finally"}
SinglePlan == plan.kind \in {"copy", "trim"}

\* C4: when the filter-graph concatenation fails, the fallback is attempted
\* exactly once per video: never zero times and never a second time.
C4_FallbackExactlyOnce ==
    /\ PrimaryFailed => fb_calls <= 1
    /\ (pc = "done" /\ PrimaryFailed) => fb_calls = 1

C6_ResultIsFallbackResult ==
    (pc = "done" /\ PrimaryFailed) =>
        result = (IF fb_first = "true" THEN "true" ELSE "false")

\* the spec's "nearly spanning the whole clip": start < 0.1 s and
\* totalDuration - end < 1.0 s
NearlySpanning(seg, duration) ==
    /\ seg[1] * 10 < SampleRate
    /\ duration - seg[2] < SampleRate

\* C7: a keep list of exactly one interval with start < 0.1 s and
\* totalDuration - end < 1.0 s selects CopyWhole (stated for a video whose
\* duration the probe reports).
C7_NearlySpanningCopies ==
    (plan # NoPlan /\ duration_known /\ Len(keep_segments) = 1
        /\ NearlySpanning(keep_segments[1], ParseDuration))
    => plan.kind = "copy"

\* C8: exactly one keep interval that is not nearly spanning the clip yields
\* TrimSingle(start, end) with trim duration end - start, more than one keep
\* interval yields ConcatSegments over the whole keep list, and a single keep
\* interval never yields ConcatSegments.
C8_PlanFromKeepList ==
    plan # NoPlan =>
        /\ Len(keep_segments) = 1 => plan.kind \in {"copy", "trim"}
        /\ (Len(keep_segments) = 1
               /\ ~NearlySpanning(keep_segments[1], ParseDuration))
           => /\ plan.kind = "trim"
              /\ plan.ss = keep_segments[1][1]
              /\ plan.t = keep_segments[1][2] - keep_segments[1][1]
        /\ Len(keep_segments) > 1
           => /\ plan.kind = "concat"
              /\ plan.segs = keep_segments
        /\ (pc = "done" /\ SinglePlan)
           => /\ encoder_calls[1].kind = plan.kind
              /\ encoder_calls[1].ss = plan.ss
              /\ encoder_calls[1].t = plan.t

\* a single keep interval ending more than a second before the end was trimmed
C8_Witness ==
    /\ pc = "done"
    /\ Len(keep_segments) = 1
    /\ ~NearlySpanning(keep_segments[1], ParseDuration)
    /\ plan.kind = "trim"
    /\ result = "true"

\* C9: a single-interval plan makes exactly one encoder invocation and, if it
\* returns non-zero or times out, process_video reports failure with no second
\* invocation; and when the filter-graph concatenation succeeds the fallback
\* is never run.
C9_FallbackForConcatOnly ==
    /\ SinglePlan => (Len(encoder_calls) <= 1 /\ fb_calls = 0)
    /\ (pc = "done" /\ SinglePlan)
       => /\ Len(encoder_calls) = 1
          /\ encoder_calls[1].status # "ok" => result = "false"
    /\ primary = "ok"
       => /\ fb_calls = 0
          /\ Len(encoder_calls) = 1
          /\ result = "true"

\* a trim that timed out was reported as a failure after one invocation
C9_Witness ==
    /\ pc = "done"
    /\ plan.kind = "trim"
    /\ Len(encoder_calls) = 1
    /\ encoder_calls[1].status = "timeout"
    /\ result = "false"

\* calculate_keep_segments has returned in process_video
KeepPlanned == pc \in {"select", "encode"} \/ plan # NoPlan

\* the mask before smoothing
RawMask == ThresholdMask(rms_values, config.silence_threshold)

\* the first window of the run of silent windows that ends the mask m
\* (Len(m) + 1 when the last window is voiced)
RECURSIVE TrailingRunStart(_, _)
TrailingRunStart(m, k) ==
    IF k >= 1 /\ m[k] THEN TrailingRunStart(m, k - 1) ELSE k + 1

Detected == pc # "start" /\ extraction = "ok" /\ Len(rms_values) > 0

\* C22: a scan that ends in the Silent state closes the open candidate at
\* buffer length / sample rate and emits it exactly when it is long enough, so
\* a silence that runs to the end of the clip is reported with its end at the
\* clip's audio duration.
C22_TrailingSilenceEndsAtClipEnd ==
    LET first == TrailingRunStart(RawMask, Len(RawMask))
    IN  (/\ Detected
         /\ first <= Len(RawMask)
         /\ audio_len - TimeStamp(first) >= config.min_silence_duration + KernelSize * HopSize)
        => /\ silence_segments # <<>>
           /\ silence_segments[Len(silence_segments)][2] = audio_len

\* C24: the stages run in the order sample extraction, silence detection,
\* keep-interval planning, encoder invocation: when the sample extraction
\* fails or times out, process_video returns False without raising and no
\* encoder invocation is made.
C24_ExtractionFailureStops ==
    /\ extraction \in {"nonzero", "timeout"}
       => /\ pc = "done"
          /\ result = "false"
          /\ silence_segments = <<>>
          /\ keep_segments = <<>>
          /\ plan = NoPlan
          /\ encoder_calls = <<>>
    /\ pc = "start"
       => (extraction = "none" /\ silence_segments = <<>> /\ keep_segments = <<>>)
    /\ pc \in {"start", "keep"} => (plan = NoPlan /\ encoder_calls = <<>>)
    /\ pc = "select" => encoder_calls = <<>>
    /\ encoder_calls # <<>> => (extraction = "ok" /\ plan # NoPlan)

C24_Witness ==
    /\ pc = "done"
    /\ extraction = "timeout"
    /\ Len(rms_values) > 0
    /\ result = "false"
    /\ encoder_calls = <<>>

\* the call made right before call p is the successful extraction of segment i
ExtractedBefore(p, i) ==
    /\ p > 1
    /\ encoder_calls[p - 1].kind = "segment"
    /\ encoder_calls[p - 1].segs = <<i>>
    /\ encoder_calls[p - 1].status = "ok"

C11_NoSilenceKeepsWhole ==
    (KeepPlanned /\ silence_segments = <<>> /\ ParseDuration > 0)
    => /\ keep_segments = << <<0, ParseDuration>> >>
       /\ plan # NoPlan => plan.kind = "copy"

\* a clip without silence was copied whole, paddings set
C11_Witness ==
    /\ pc = "done"
    /\ silence_segments = <<>>
    /\ ParseDuration > 0
    /\ config.before_padding > 0
    /\ config.after_padding > 0
    /\ plan.kind = "copy"
    /\ result = "true"

\* C12: when the decoded buffer is empty or shorter than one window, the
\* analysis is "no silence detected", not an error: detect_silence_segments
\* returns an empty list without raising and process_video goes on to the
\* planner.
C12_ShortBufferIsNoSilence ==
    [][(pc = "start" /\ Len(rms_values) = 0 /\ extraction' = "ok")
        => (pc' = "keep" /\ silence_segments' = <<>>)]_vars

\* C19: when the probe cannot determine the duration, processing ends in a
\* reported failure and no encoder invocation is made.
C19_NoDurationFails ==
    ~duration_known
    => /\ encoder_calls = <<>>
       /\ pc = "done" => result = "false"

---------------------------------------------------------------------------
(* Properties of process_video, checked under SpecRender *)

\* C27: with an empty keep list process_video selects neither the copy nor
\* the trim: it takes the multi-segment path and invokes the filter-graph
\* concatenation with zero segments and, if that fails, the fallback with
\* zero segment files.
C27_EmptyKeepIsConcat ==
    (keep_segments = <<>> /\ pc # "keep")
    => /\ pc # "encode"
       /\ plan # NoPlan => (plan.kind = "concat" /\ plan.segs = <<>>)
       /\ \A p \in 1..Len(encoder_calls) :
             /\ encoder_calls[p].kind \in {"filter_complex", "concat"}
             /\ encoder_calls[p].segs = <<>>
             /\ encoder_calls[p].kind = "filter_complex" <=> p = 1
       /\ (pc = "done" /\ plan # NoPlan) => primary # "none"
       /\ (fb_calls > 0 \/ pc = "fallback") => primary \in {"nonzero", "raise"}
       /\ (pc = "done" /\ primary \in {"nonzero", "raise"}) => fb_calls > 0

\* an empty keep list whose filter-graph concatenation failed and whose
\* fallback ran the lossless concat on an empty list
C27_Witness ==
    /\ pc = "done"
    /\ silence_segments # <<>>
    /\ keep_segments = <<>>
    /\ plan.kind = "concat"
    /\ primary = "nonzero"
    /\ Len(encoder_calls) = 2
    /\ encoder_calls[2].kind = "concat"
    /\ result = "false"

---------------------------------------------------------------------------
(* Properties of the volume profile, checked under SpecProfile *)

\* the starts 0, H, 2H, ... of the windows that fully fit a buffer of n samples
FittingStarts(n) == {i \in 0..n : i % HopSize = 0 /\ i + WindowSize <= n}

\* C13: the volume profile has one entry for every window start i in
\* {0, H, 2H, ...} with i + W <= N, and only a partial window is dropped; in
\* particular it is non-empty whenever N >= W.
C13_EveryFittingWindow ==
    pc \in {"profiled", "raised"}
    => /\ {profile[k].t : k \in 1..Len(profile)} = FittingStarts(audio_len)
       /\ Len(profile) = Cardinality(FittingStarts(audio_len))

---------------------------------------------------------------------------
(* Properties of sample_audio_volume, checked under SpecSampler *)

\* the square of a window's dB value 20 * log10(max(rms, 1e-10)), rounded down:
\* an all-zero window is clamped to -200 dB, a full-scale window is 0 dB and
\* a half-full window is 10 * log10(1/2) = -3.01 dB
WindowDbSquared(sumsq) ==
    IF sumsq = 0 THEN 200 * 200
    ELSE IF sumsq >= WindowSize THEN 0
    ELSE 9

RECURSIVE SumDbSquared(_, _)
SumDbSquared(prof, k) ==
    IF k > Len(prof) THEN 0
    ELSE WindowDbSquared(prof[k].sumsq) + SumDbSquared(prof, k + 1)

\* the aggregate the Volume Sampler is documented to return: the RMS of the
\* per-window dB values of the buffer's volume profile
ProfileRmsDb(audio) ==
    LET prof == VolumeProfile(audio)
    IN  [sign |-> 1, num |-> SumDbSquared(prof, 1), den |-> Len(prof)]

\* two volumes are the same number (nan is no number)
SameVolume(v, w) ==
    /\ v.den # 0
    /\ w.den # 0
    /\ \/ v.num = 0 /\ w.num = 0
       \/ v.sign = w.sign /\ v.num * w.den = w.num * v.den

\* C21: sample_audio_volume runs the volume profile builder (100 ms windows,
\* 50 ms hop, RMS per window, then dB) over the extracted buffer and returns
\* the RMS of the per-window dB values, not of per-sample values.
C21_SamplerUsesProfile ==
    (pc = "sampled" /\ extraction = "ok" /\ NumWindows(Len(audio_data)) > 0)
    => SameVolume(volume, ProfileRmsDb(audio_data))

\* C20: on any fault during sample extraction or analysis, sample_audio_volume
\* returns -40.0 and does not propagate the fault.
C20_FaultGivesDefault ==
    /\ pc # "raised"
    /\ (pc = "sampled" /\ extraction # "ok")
       => volume = [sign |-> -1, num |-> 1600, den |-> 1]

C20_Witness ==
    /\ pc = "sampled"
    /\ extraction = "timeout"
    /\ Len(audio_data) > 0
    /\ volume.sign = -1
    /\ volume.num = 1600

\* the volume is a number and is not below zero
NonNegative(v) == v.den > 0 /\ (v.sign >= 0 \/ v.num = 0)

---------------------------------------------------------------------------
(* Properties of the batch, checked under SpecBatch *)

\* the results recorded for path f
ResultsFor(f) == {k \in 1..Len(results) : results[k].input_file = f}

\* the entries of video_files that name path f
EntriesFor(f) == {i \in Tasks : video_files[i] = f}

\* C17: a failure or an exception while processing one video never aborts the
\* others: when process_batch returns, every discovered video has been
\* processed and the results hold exactly one result (success or failure) per
\* discovered entry.
C17_OneResultPerVideo ==
    (batch_pc = "returned" /\ video_files # <<>>)
    => /\ \A i \in Tasks : task_pc[i] = "done"
       /\ Len(results) = Len(video_files)
       /\ \A f \in 1..MaxVideos :
             Cardinality(ResultsFor(f)) = Cardinality(EntriesFor(f))

\* a batch returned after one call raised and another succeeded
C17_Witness ==
    /\ batch_pc = "returned"
    /\ Len(results) = 2
    /\ \E k \in 1..Len(results) : results[k].error = "exception"
    /\ \E k \in 1..Len(results) : results[k].success

\* the calls inside the with self.lock block
Writers == {i \in Tasks : task_pc[i] = "locked"}

\* C18: workers append to the results only while holding the lock, so at most
\* one worker writes at a time, and under every interleaving no result is
\* lost or duplicated.
C18_SingleWriterNoLoss ==
    batch_pc \in {"waiting", "returned"}
    => /\ Cardinality(Writers) <= 1
       /\ \A i \in Writers : lock = i
       /\ Len(results) = Cardinality({i \in Tasks : task_pc[i] = "done"})
       /\ \A f \in 1..MaxVideos :
             Cardinality(ResultsFor(f))
                 = Cardinality({i \in EntriesFor(f) : task_pc[i] = "done"})

\* one worker is appending while another waits for the lock
C18_Witness ==
    /\ batch_pc = "waiting"
    /\ \E i \in Tasks, j \in Tasks :
          /\ task_pc[i] = "locked"
          /\ lock = i
          /\ task_pc[j] = "finished"

---------------------------------------------------------------------------
(* Properties of the detector, checked under SpecDetect *)

\* C23: with the majority-vote smoother every sample i of the mask, the first
\* two and the last two included, is silent exactly when at least 3 of the
\* samples in the window [i-2, i+2] of the raw mask are silent.
C23_MajorityAtEverySample ==
    (Detected /\ ~has_scipy)
    => \A k \in 1..Len(is_silence) :
          is_silence[k] <=> (CountSilentClipped(RawMask, k - 2, k + 2) >= 3)

\* the state in which the scan of the smoothed mask ends
ScanEnd == ScanFrom(is_silence, 1, FALSE, 0, <<>>, config.min_silence_duration)

\* C28: with the majority-vote smoother the first two and the last two
\* samples of the smoothed mask are voiced, so the scan ends in the Voiced
\* state: the end-of-scan flush is not taken, no silence interval starts at
\* timestamp 0 and none ends at buffer length / sample rate.
C28_EdgesVoiced ==
    (Detected /\ ~has_scipy)
    => /\ \A k \in 1..Len(is_silence) :
             (k <= 2 \/ k > Len(is_silence) - 2) => ~is_silence[k]
       /\ ~ScanEnd.in_silence
       /\ \A i \in 1..Len(silence_segments) :
             /\ silence_segments[i][1] > 0
             /\ silence_segments[i][2] < audio_len

\* a profile that is silent from its first to its last window
C28_Witness ==
    /\ Detected
    /\ ~has_scipy
    /\ Len(rms_values) >= KernelSize + 1
    /\ \A k \in 1..Len(rms_values) : RawMask[k]
    /\ Len(silence_segments) = 1

---------------------------------------------------------------------------
(* Properties of the scan, checked under SpecScan *)

\* C10: every emitted silence interval lasts at least min_silence_duration,
\* and the list is strictly ordered and non-overlapping: each interval's end
\* is at most the next interval's start.
C10_SilenceOrderedAndLong ==
    pc = "scanned" =>
        /\ \A i \in 1..Len(silence_segments) :
              silence_segments[i][2] - silence_segments[i][1]
                  >= config.min_silence_duration
        /\ \A i \in 1..(Len(silence_segments) - 1) :
              /\ silence_segments[i][1] < silence_segments[i + 1][1]
              /\ silence_segments[i][2] <= silence_segments[i + 1][1]

\* a mask with a closed silence, a dropped short candidate or two, and a
\* silence still open at the end of the scan
C10_Witness ==
    /\ pc = "scanned"
    /\ config.min_silence_duration = 2
    /\ Len(is_silence) = MaxMaskLen
    /\ is_silence[Len(is_silence)]
    /\ Len(silence_segments) = 2
    /\ \E k \in 2..(Len(is_silence) - 1) :
          is_silence[k] /\ ~is_silence[k - 1] /\ ~is_silence[k + 1]

===========================================================================
